---------------------------- MODULE Spec2Model ----------------------------
(***************************************************************************)
(* The generational layout engine of the family-tree viewer                *)
(* (frontend/src/components/FamilyTreeView.tsx): relDeltaFromRoot, year,   *)
(* pickOldest and buildTreeLayout, as a state machine that walks through   *)
(* buildTreeLayout one phase at a time; and the family-tree routes of the  *)
(* backend (the router of /family-trees and models/FamilyTree.js), one     *)
(* action per request; and the tree-link routes (routes/treeLinks.js and   *)
(* models/TreeLink.js), one action per request, the link request in two.   *)
(*                                                                         *)
(* Strings of the program are TLA+ strings; the string functions the code  *)
(* uses (toLowerCase, trim/split, the regular expressions, localeCompare,  *)
(* the < of two identifiers, the year of a date) are computed character by *)
(* character.  A value that may be undefined is a sequence of length 0 or  *)
(* 1: << >> is undefined, <<v>> is the value v.  A falsy string (null,     *)
(* undefined, "") is the empty string.                                     *)
(***************************************************************************)
EXTENDS Integers, Sequences, FiniteSets, TLC

VARIABLES
    members,       \* the array handed to buildTreeLayout
    input,         \* the array as the caller built it (never assigned again)
    pc,            \* position in buildTreeLayout
    pEdges,        \* Edge[]: parent edges <<parent, child>>
    sEdges,        \* Edge[]: spouse edges <<a, b>>
    fallbackRoot,  \* pickOldest(members)
    q,             \* the BFS work queue of [id, g]
    seen,          \* Set<string> of the BFS
    gen,           \* Map<string, number> in insertion order: Seq of [id, g]
    levels,        \* string[][]
    result,        \* what the current invocation returned (or that it threw)
    run,           \* 1 for the first invocation on the array, 2 for the second
    first,         \* what the first invocation returned
    label,         \* a relationship label handed to relDeltaFromRoot
    delta,         \* what relDeltaFromRoot returned for it
    tree,          \* the FamilyTree document stored in the database
    issued,        \* the number of member _ids generated so far
    added,         \* the _id of the member the latest add-member request added
    response,      \* the response to the latest request to the backend
    linkTrees,     \* the FamilyTree documents the tree-link routes read and update
    treeLinks,     \* the TreeLink documents, in the order of their creation
    calls,         \* per user, the link request that passed its checks and awaits its save
    rejected       \* history: the _ids of the links the reject handler has rejected

\* The variables of the backend.
apiVars == <<tree, issued, added, response, linkTrees, treeLinks, calls, rejected>>

vars == <<members, input, pc, pEdges, sEdges, fallbackRoot, q, seen, gen,
          levels, result, run, first, label, delta, tree, issued, added, response,
          linkTrees, treeLinks, calls, rejected>>

-----------------------------------------------------------------------------
(* Bounds of the model *)

\* The largest member collection.
MaxMembers == 3

\* The largest number of relationship references (fatherId, motherId, one
\* entry of spouseIds, one entry of childrenIds) in a collection.
MaxLinks == 2

-----------------------------------------------------------------------------
(* Strings *)

None == << >>
Some(v) == <<v>>

\* The array whose elements are those of the function f on 1..n.
Array(f) == << >> \o f

LowerCaseLetters == "abcdefghijklmnopqrstuvwxyz"
UpperCaseLetters == "ABCDEFGHIJKLMNOPQRSTUVWXYZ"
DecimalDigits == "0123456789"

CharAt(s, i) == SubSeq(s, i, i)

\* The position of every character of a string without repetitions.
Positions(alphabet) ==
    [c \in {CharAt(alphabet, i) : i \in 1..Len(alphabet)} |->
        CHOOSE i \in 1..Len(alphabet) : CharAt(alphabet, i) = c]

LowerCasePosition == Positions(LowerCaseLetters)
UpperCasePosition == Positions(UpperCaseLetters)
DecimalDigitPosition == Positions(DecimalDigits)

\* The position of character c by such a table, 0 when it is not there.
IndexIn(c, position) == IF c \in DOMAIN position THEN position[c] ELSE 0

LowerCaseOf == [c \in DOMAIN UpperCasePosition |-> CharAt(LowerCaseLetters, UpperCasePosition[c])]

LowerChar(c) == IF c \in DOMAIN LowerCaseOf THEN LowerCaseOf[c] ELSE c

\* s.toLowerCase() from character i on.
RECURSIVE LowerCaseFrom(_, _)
LowerCaseFrom(s, i) ==
    IF i > Len(s) THEN ""
    ELSE LowerChar(CharAt(s, i)) \o LowerCaseFrom(s, i + 1)

toLowerCase(s) == LowerCaseFrom(s, 1)

\* \s of a regular expression (the labels and names drawn here hold no other
\* white space than the blank).
IsSpace(c) == c = " "

\* \w of a regular expression.
IsWordChar(c) ==
    \/ IndexIn(c, LowerCasePosition) > 0
    \/ IndexIn(c, UpperCasePosition) > 0
    \/ IndexIn(c, DecimalDigitPosition) > 0
    \/ c = "_"

\* String s holds the literal w from position i on.
HasAt(s, i, w) ==
    /\ i >= 1
    /\ i + Len(w) - 1 <= Len(s)
    /\ SubSeq(s, i, i + Len(w) - 1) = w

\* \b between the characters i-1 and i of s.
WordBoundary(s, i) ==
    LET before == i > 1 /\ i - 1 <= Len(s) /\ IsWordChar(CharAt(s, i - 1))
        after  == i >= 1 /\ i <= Len(s) /\ IsWordChar(CharAt(s, i))
    IN  before # after

\* /\b(w1|w2|...)\b/.test(s)
TestWord(s, words) ==
    \E i \in 1..Len(s) : \E w \in words :
        /\ HasAt(s, i, w)
        /\ WordBoundary(s, i)
        /\ WordBoundary(s, i + Len(w))

\* The positions where the match may go on after [-\s]? tried at position i.
AfterOptionalSeparator(s, i) ==
    {i} \cup (IF i <= Len(s) /\ (CharAt(s, i) = "-" \/ IsSpace(CharAt(s, i)))
              THEN {i + 1} ELSE {})

\* grand(w1|w2|...) matches s at position i.
GrandAt(s, i, words) ==
    /\ HasAt(s, i, "grand")
    /\ \E w \in words : HasAt(s, i + 5, w)

\* /grand(w1|w2|...)/.test(s)
TestGrand(s, words) == \E i \in 1..Len(s) : GrandAt(s, i, words)

\* /great[-\s]?grand(w1|w2|...)/.test(s)
TestGreatGrand(s, words) ==
    \E i \in 1..Len(s) :
        /\ HasAt(s, i, "great")
        /\ \E j \in AfterOptionalSeparator(s, i + 5) : GrandAt(s, j, words)

\* /great[-\s]?great[-\s]?grand(w1|w2|...)/.test(s)
TestGreatGreatGrand(s, words) ==
    \E i \in 1..Len(s) :
        /\ HasAt(s, i, "great")
        /\ \E j \in AfterOptionalSeparator(s, i + 5) :
              /\ HasAt(s, j, "great")
              /\ \E k \in AfterOptionalSeparator(s, j + 5) : GrandAt(s, k, words)

Elders == {"parent", "father", "mother"}
Youngsters == {"son", "daughter", "child"}

\* relDeltaFromRoot with the plain grand(parent|father|mother) test moved in
\* front of the great ones.
relDeltaFromRoot_PlainGrandFirst(rel) ==
    LET r == toLowerCase(rel)
    IN  IF TestGrand(r, Elders) THEN Some(1)
        ELSE IF TestGreatGreatGrand(r, Elders) THEN Some(3)
        ELSE IF TestGreatGrand(r, Elders) THEN Some(2)
        ELSE IF TestWord(r, {"father", "mother", "parent", "dad", "mom"}) THEN Some(1)
        ELSE IF TestWord(r, {"son", "daughter", "child", "kid"}) THEN Some(-1)
        ELSE IF TestGrand(r, Youngsters) THEN Some(-2)
        ELSE IF TestGreatGrand(r, Youngsters) THEN Some(-3)
        ELSE IF TestWord(r, {"uncle", "aunt"}) THEN Some(1)
        ELSE IF TestWord(r, {"nephew", "niece"}) THEN Some(-1)
        ELSE IF TestWord(r, {"sister", "brother", "sibling"}) THEN Some(0)
        ELSE None

\* relative generation vs root (positive = older, negative = younger):
\* the cascade of tests in the order of the code, first match wins.
relDeltaFromRoot(rel) ==
    LET r == toLowerCase(rel)
    IN  IF TestGreatGreatGrand(r, Elders) THEN Some(3)
        ELSE IF TestGreatGrand(r, Elders) THEN Some(2)
        ELSE IF TestGrand(r, Elders) THEN Some(1)
        ELSE IF TestWord(r, {"father", "mother", "parent", "dad", "mom"}) THEN Some(1)
        ELSE IF TestWord(r, {"son", "daughter", "child", "kid"}) THEN Some(-1)
        ELSE IF TestGrand(r, Youngsters) THEN Some(-2)
        ELSE IF TestGreatGrand(r, Youngsters) THEN Some(-3)
        ELSE IF TestWord(r, {"uncle", "aunt"}) THEN Some(1)
        ELSE IF TestWord(r, {"nephew", "niece"}) THEN Some(-1)
        ELSE IF TestWord(r, {"sister", "brother", "sibling"}) THEN Some(0)
        ELSE None

-----------------------------------------------------------------------------
(* Dates, names and identifiers *)

\* The number written by the first n characters of s, all decimal digits.
RECURSIVE ParseDigits(_, _)
ParseDigits(s, n) ==
    IF n = 0 THEN 0
    ELSE 10 * ParseDigits(s, n - 1) + (IndexIn(CharAt(s, n), DecimalDigitPosition) - 1)

\* year(d): undefined for a missing date, else the year of the date.  The
\* dates drawn here are ISO dates "YYYY-MM-DD" in mid-year, whose year is the
\* same in every time zone.
year(d) == IF d = "" THEN None ELSE Some(ParseDigits(d, 4))

\* x ?? dflt
OrElse(x, dflt) == IF x = None THEN dflt ELSE x[1]

\* The order of UTF-16 code units among the characters used here.
CodeUnitOrder == " -0123456789ABCDEFGHIJKLMNOPQRSTUVWXYZ_abcdefghijklmnopqrstuvwxyz"
CodeUnitPosition == Positions(CodeUnitOrder)

\* a < b on two strings that agree before character i: by code units, a
\* proper prefix first.
RECURSIVE StringLessFrom(_, _, _)
StringLessFrom(a, b, i) ==
    IF i > Len(b) THEN FALSE
    ELSE IF i > Len(a) THEN TRUE
    ELSE LET ca == IndexIn(CharAt(a, i), CodeUnitPosition)
             cb == IndexIn(CharAt(b, i), CodeUnitPosition)
         IN  IF ca # cb THEN ca < cb ELSE StringLessFrom(a, b, i + 1)

StringLess(a, b) == StringLessFrom(a, b, 1)

\* The collation order of localeCompare among the characters used here: white
\* space, punctuation, digits, letters; case decides only between strings
\* that are otherwise equal, lower case first.
CollationOrder == " _-0123456789abcdefghijklmnopqrstuvwxyz"
CollationPosition == Positions(CollationOrder)

\* The comparison of a and b, equal before character i, letter case apart.
RECURSIVE PrimaryCompare(_, _, _)
PrimaryCompare(a, b, i) ==
    IF i > Len(a) /\ i > Len(b) THEN 0
    ELSE IF i > Len(a) THEN -1
    ELSE IF i > Len(b) THEN 1
    ELSE LET wa == IndexIn(LowerChar(CharAt(a, i)), CollationPosition)
             wb == IndexIn(LowerChar(CharAt(b, i)), CollationPosition)
         IN  IF wa < wb THEN -1
             ELSE IF wa > wb THEN 1
             ELSE PrimaryCompare(a, b, i + 1)

\* The comparison by letter case of a and b, equal letter case apart.
RECURSIVE CaseCompare(_, _, _)
CaseCompare(a, b, i) ==
    IF i > Len(a) \/ i > Len(b) THEN 0
    ELSE IF CharAt(a, i) = CharAt(b, i) THEN CaseCompare(a, b, i + 1)
    ELSE IF IndexIn(CharAt(a, i), LowerCasePosition) > 0 THEN -1 ELSE 1

\* a.localeCompare(b): negative, 0 or positive.
localeCompare(a, b) ==
    CHOOSE r \in {IF p # 0 THEN p ELSE CaseCompare(a, b, 1) :
                  p \in {PrimaryCompare(a, b, 1)}} : TRUE

\* The length of s.trimEnd(), for the first n characters of s.
RECURSIVE TrimmedLength(_, _)
TrimmedLength(s, n) ==
    IF n > 0 /\ IsSpace(CharAt(s, n)) THEN TrimmedLength(s, n - 1) ELSE n

\* Where the run of characters without white space that ends at n starts.
RECURSIVE WordStart(_, _)
WordStart(s, n) ==
    IF n = 0 \/ IsSpace(CharAt(s, n)) THEN n + 1 ELSE WordStart(s, n - 1)

\* s.trim().split(/\s+/).pop(): the last run of characters without white
\* space of s, "" when there is none.
LastWord(s) ==
    LET n == TrimmedLength(s, Len(s))
    IN  SubSeq(s, WordStart(s, n), n)

\* (s.trim().split(/\s+/).pop() || '').toLowerCase()
lastToken(s) == toLowerCase(LastWord(s))

\* Array.prototype.sort, a stable sort; cmp[j][i] is what the comparator
\* returns for elements j and i of s.  Element i goes behind every element
\* that compares smaller and every equal one before it.
StableSort(s, cmp) ==
    CHOOSE sorted \in
        {Array([k \in 1..Len(s) |-> s[CHOOSE i \in 1..Len(s) : rank[i] = k]]) :
            rank \in {Array([i \in 1..Len(s) |->
                        1 + Cardinality({j \in 1..Len(s) :
                                c[j][i] < 0 \/ (c[j][i] = 0 /\ j < i)})]) :
                      c \in {cmp}}} : TRUE

\* The comparator of pickOldest.
CompareByDOB(a, b) ==
    OrElse(year(a.dateOfBirth), 9999) - OrElse(year(b.dateOfBirth), 9999)

\* The comparator of pickOldest on every two members.
ComparisonsByDOB(ms) ==
    Array([i \in 1..Len(ms) |->
        Array([j \in 1..Len(ms) |-> CompareByDOB(ms[i], ms[j])])])

\* pickOldest sorting its argument itself instead of a copy of it.
MembersAfterPickOldest_InPlace(ms) == StableSort(ms, ComparisonsByDOB(ms))

\* The array pickOldest leaves behind in its argument: it sorts a copy
\* ([...members]), so the argument keeps its order.
MembersAfterPickOldest(ms) == ms

\* The first member picked, whatever the birth dates.
pickOldest_First(ms) == ms[1].id

\* pickOldest(members), for a non-empty array.
pickOldest(ms) == StableSort(ms, ComparisonsByDOB(ms))[1].id

-----------------------------------------------------------------------------
(* The member collections the layout is computed for *)

\* A FamilyMember: id is _id; a missing dateOfBirth, fatherId or motherId is
\* "", a missing spouseIds or childrenIds is << >>.
Person(name, dateOfBirth, relationship) ==
    [name |-> name, dateOfBirth |-> dateOfBirth, relationship |-> relationship]

\* The people of the collections: position i of a roster is the person who
\* gets identifier IdOf(i).
Rosters == <<
    << Person("Ann Lee", "1940-06-15", "Grandmother"),
       Person("Bob Lee", "1965-06-15", "Father"),
       Person("Cid Lee", "1990-06-15", "Son"),
       Person("Dee Lee", "2015-06-15", "Grandson"),
       Person("Eli Lee", "2015-06-15", "Great-Grandson") >>,
    << Person("Raj Rao", "", "Grandfather"),
       Person("Avi Rao", "", "Father"),
       Person("Om Rao", "", "Son"),
       Person("Uma Rao", "", "Great-Grandfather"),
       Person("Raj Rao", "", "Sister") >>,
    << Person("Eve Ray", "1990-06-15", "Cousin"),
       Person("Al Kim", "", "Friend"),
       Person("eve ray", "1940-06-15", "Niece"),
       Person("Al Kim", "1940-06-15", "Uncle"),
       Person("Bo Kim Ray", "1965-06-15", "Cousin") >>,
    << Person("Zoe Poe", "", "Daughter"),
       Person("Abe Poe", "1940-06-15", "Father"),
       Person("Ida Poe", "1940-06-15", "Mother"),
       Person("Ned Poe", "1990-06-15", "Brother"),
       Person("Pat Poe", "", "Cousin") >> >>

\* The collections drawn: the people of the first and of the fourth roster
\* with at most MaxLinks references, those of the other rosters with one
\* reference less.
MaxLinksOf(r) == IF r \in {1, 4} THEN MaxLinks ELSE MaxLinks - 1

\* The identifier of position i: "0", "1", "2", ...
IdOf(i) == CharAt(DecimalDigits, i + 1)

Kinds == {"father", "mother", "spouse", "child"}

\* One relationship reference: member owner names target as its kind.  A
\* member names itself or a neighbour in input order; the neighbours before
\* the first member and behind the last one are identifiers of nobody
\* (dangling references).
Links(n) ==
    {[owner |-> o, kind |-> k, target |-> t] :
        o \in 1..n, k \in Kinds, t \in {-1, 0, 1}}

\* The sets of at most k elements of S.
RECURSIVE SubsetsUpTo(_, _)
SubsetsUpTo(S, k) ==
    IF k = 0 THEN {{}}
    ELSE LET smaller == SubsetsUpTo(S, k - 1)
         IN  smaller \cup {T \cup {x} : T \in smaller, x \in S}

\* A member has one fatherId and one motherId.
WellFormed(L) ==
    \A a \in L : \A b \in L :
        (a.owner = b.owner /\ a.kind = b.kind /\ a.kind \in {"father", "mother"})
            => a = b

LinkSets(n, k) == {L \in SubsetsUpTo(Links(n), k) : WellFormed(L)}

\* The elements of a set of numbers, ascending.
RECURSIVE Ascending(_)
Ascending(S) ==
    IF S = {} THEN << >>
    ELSE LET least == CHOOSE x \in S : \A y \in S : x <= y
         IN  <<least>> \o Ascending(S \ {least})

Targets(L, i, kind) == {i + l.target : l \in {x \in L : x.owner = i /\ x.kind = kind}}

RefIds(L, i, kind) ==
    LET t == Ascending(Targets(L, i, kind))
    IN  [k \in 1..Len(t) |-> IdOf(t[k])]

OneRefId(L, i, kind) ==
    IF Targets(L, i, kind) = {} THEN "" ELSE RefIds(L, i, kind)[1]

MemberOf(roster, L, i) ==
    [id           |-> IdOf(i),
     name         |-> roster[i].name,
     dateOfBirth  |-> roster[i].dateOfBirth,
     relationship |-> roster[i].relationship,
     fatherId     |-> OneRefId(L, i, "father"),
     motherId     |-> OneRefId(L, i, "mother"),
     spouseIds    |-> RefIds(L, i, "spouse"),
     childrenIds  |-> RefIds(L, i, "child")]

Collection(roster, n, L) == [i \in 1..n |-> MemberOf(roster, L, i)]

\* A collection in which the last member was entered under the identifier of
\* the first one.
WithDuplicate(ms) == [ms EXCEPT ![Len(ms)].id = ms[1].id]

\* The second roster is drawn with distinct identifiers and, from two members
\* on, with a duplicate identifier as well.
DuplicateChoices(r, n) == IF r = 2 /\ n >= 2 THEN {FALSE, TRUE} ELSE {FALSE}

Entered(ms, duplicate) == IF duplicate THEN WithDuplicate(ms) ELSE ms

\* A member written out field by field.
Member(id, person, fatherId, motherId, spouseIds, childrenIds) ==
    [id           |-> id,
     name         |-> person.name,
     dateOfBirth  |-> person.dateOfBirth,
     relationship |-> person.relationship,
     fatherId     |-> fatherId,
     motherId     |-> motherId,
     spouseIds    |-> spouseIds,
     childrenIds  |-> childrenIds]

\* Collections of members of several families, given in full: a child whose
\* father is nobody of the collection and whose mother bears another family
\* name, next to a member of a third family; three members of one family
\* without links, two of them born in the same year and one without a birth
\* date; a grandson by label only, next to an unlabelled member; a
\* grandmother, next to an unlabelled member born in her year and a son,
\* both with a father who is nobody of the collection.
Households == <<
    << Member("1", Person("Eve Ray", "1990-06-15", "Cousin"), "0", "2", << >>, << >>),
       Member("2", Person("Al Kim", "1940-06-15", "Friend"), "", "", << >>, << >>),
       Member("3", Person("Mo Lee", "1990-06-15", "Son"), "4", "", << >>, << >>) >>,
    << Member("1", Person("Zoe Poe", "", "Aunt"), "", "", << >>, << >>),
       Member("2", Person("Ida Poe", "1940-06-15", "Aunt"), "", "", << >>, << >>),
       Member("3", Person("Abe Poe", "1940-06-15", "Uncle"), "", "", << >>, << >>) >>,
    << Member("1", Person("Gus Orr", "", "Grandson"), "0", "", << >>, << >>),
       Member("2", Person("Hal Orr", "", "Friend"), "", "", << >>, << >>) >>,
    << Member("1", Person("Ann Lee", "1940-06-15", "Grandmother"), "", "", << >>, << >>),
       Member("2", Person("Al Kim", "1940-06-15", "Friend"), "0", "", << >>, << >>),
       Member("3", Person("Mo Lee", "1990-06-15", "Son"), "0", "", << >>, << >>) >> >>

-----------------------------------------------------------------------------
(* buildTreeLayout *)

MemberIds(ms) == {ms[k].id : k \in 1..Len(ms)}

\* byId.has(id) and byId.get(id): new Map(members.map(m => [m._id, m])) keeps
\* the last member of an identifier.
HasMember(ms, id) == id \in MemberIds(ms)

ById(ms, id) ==
    ms[CHOOSE k \in 1..Len(ms) :
          /\ ms[k].id = id
          /\ \A j \in (k + 1)..Len(ms) : ms[j].id # id]

\* The parent edges one member contributes: its children, its father, its
\* mother, in this order.
MemberPEdges(m) ==
    [k \in 1..Len(m.childrenIds) |-> <<m.id, m.childrenIds[k]>>]
    \o (IF m.fatherId # "" THEN << <<m.fatherId, m.id>> >> ELSE << >>)
    \o (IF m.motherId # "" THEN << <<m.motherId, m.id>> >> ELSE << >>)

\* The spouse edges of a member without the test m._id < s.
MemberSEdges_Unfiltered(m) ==
    [k \in 1..Len(m.spouseIds) |-> <<m.id, m.spouseIds[k]>>]

\* The spouse edges one member contributes: store once (sorted id pair).
MemberSEdges(m) ==
    LET kept == SelectSeq(m.spouseIds, LAMBDA s : StringLess(m.id, s))
    IN  [k \in 1..Len(kept) |-> <<m.id, kept[k]>>]

RECURSIVE ExplicitPEdges(_)
ExplicitPEdges(ms) ==
    IF ms = << >> THEN << >>
    ELSE MemberPEdges(Head(ms)) \o ExplicitPEdges(Tail(ms))

RECURSIVE ExplicitSEdges(_)
ExplicitSEdges(ms) ==
    IF ms = << >> THEN << >>
    ELSE MemberSEdges(Head(ms)) \o ExplicitSEdges(Tail(ms))

\* Roots = people who are never a child in any pEdge, in input order.
Candidates(ms, pE) ==
    LET childrenSet == {pE[k][2] : k \in 1..Len(pE)}
        ids == [k \in 1..Len(ms) |-> ms[k].id]
    IN  SelectSeq(ids, LAMBDA id : id \notin childrenSet)

\* The first candidate as the only root.
Roots_FirstCandidate(ms, pE) ==
    IF Len(Candidates(ms, pE)) > 0 THEN <<Candidates(ms, pE)[1]>>
    ELSE <<pickOldest(ms)>>

\* The oldest member as the only root, whatever the candidates.
Roots_FallbackOnly(ms, pE) == <<pickOldest(ms)>>

Roots(ms, pE) ==
    IF Len(Candidates(ms, pE)) > 0 THEN Candidates(ms, pE) ELSE <<pickOldest(ms)>>

QueueEntry(id, g) == [id |-> id, g |-> g]

\* gen.has(id), gen.get(id)
GenHas(genMap, id) == \E k \in 1..Len(genMap) : genMap[k].id = id
GenGet(genMap, id) == genMap[CHOOSE k \in 1..Len(genMap) : genMap[k].id = id].g

\* The child of a node placed one generation up instead of down.
ChildGeneration_Older(g) == g + 1

\* The parent of a node placed one generation down instead of up.
ParentGeneration_Younger(g) == g - 1

\* The generation the BFS gives a child, a parent and a spouse of a node of
\* generation g.
ChildGeneration(g) == g - 1
ParentGeneration(g) == g + 1
SpouseGeneration(g) == g

\* What one visit of node id at generation g pushes, seenNow holding id.
ChildPushes(pE, id, g, seenNow) ==
    LET e == SelectSeq(pE, LAMBDA x : x[1] = id /\ x[2] \notin seenNow)
    IN  [k \in 1..Len(e) |-> QueueEntry(e[k][2], ChildGeneration(g))]

\* The parents pushed whether seen or not.
ParentPushes_Unchecked(pE, id, g, seenNow) ==
    LET e == SelectSeq(pE, LAMBDA x : x[2] = id)
    IN  [k \in 1..Len(e) |-> QueueEntry(e[k][1], ParentGeneration(g))]

ParentPushes(pE, id, g, seenNow) ==
    LET e == SelectSeq(pE, LAMBDA x : x[2] = id /\ x[1] \notin seenNow)
    IN  [k \in 1..Len(e) |-> QueueEntry(e[k][1], ParentGeneration(g))]

RECURSIVE SpousePushes(_, _, _, _)
SpousePushes(sE, id, g, seenNow) ==
    IF sE = << >> THEN << >>
    ELSE LET a == Head(sE)[1]
             b == Head(sE)[2]
         IN  (IF a = id /\ b \notin seenNow
              THEN <<QueueEntry(b, SpouseGeneration(g))>> ELSE << >>)
             \o (IF b = id /\ a \notin seenNow
                 THEN <<QueueEntry(a, SpouseGeneration(g))>> ELSE << >>)
             \o SpousePushes(Tail(sE), id, g, seenNow)


\* The birth-year heuristic with an equal year placed with the later ones.
FillGeneration_StrictlyEarlier(ms, m, root, rootG) ==
    LET d == relDeltaFromRoot(m.relationship)
    IN  IF d # None THEN rootG + d[1]
        ELSE LET ym == year(m.dateOfBirth)
                 yr == IF HasMember(ms, root)
                       THEN year(ById(ms, root).dateOfBirth) ELSE None
             IN  IF ym # None /\ yr # None
                 THEN (IF ym[1] < yr[1] THEN rootG + 1 ELSE rootG - 1)
                 ELSE rootG

\* The generation the fill step gives a member the BFS did not reach.
FillGeneration(ms, m, root, rootG) ==
    LET d == relDeltaFromRoot(m.relationship)
    IN  IF d # None THEN rootG + d[1]
        ELSE LET ym == year(m.dateOfBirth)
                 yr == IF HasMember(ms, root)
                       THEN year(ById(ms, root).dateOfBirth) ELSE None
             IN  IF ym # None /\ yr # None
                 THEN (IF ym[1] <= yr[1] THEN rootG + 1 ELSE rootG - 1)
                 ELSE rootG

\* The fill loop left out.
Filled_Nothing(ms, genMap, root) == genMap

\* The loop over the members that fills gen: a member gen holds is skipped,
\* so the loop appends the first member of every identifier gen lacks.
Filled(ms, genMap, root) ==
    LET rootG == IF GenHas(genMap, root) THEN GenGet(genMap, root) ELSE 0
        todo == SelectSeq([k \in 1..Len(ms) |-> k],
                          LAMBDA k : /\ ~GenHas(genMap, ms[k].id)
                                     /\ \A j \in 1..(k - 1) : ms[j].id # ms[k].id)
    IN  genMap \o [t \in 1..Len(todo) |->
                     QueueEntry(ms[todo[t]].id,
                                FillGeneration(ms, ms[todo[t]], root, rootG))]

\* Normalize so top row is 0: row g - minG holds the identifiers of generation
\* g in the order gen holds them.
Generations(genMap) == {genMap[k].g : k \in 1..Len(genMap)}
MinG(genMap) == CHOOSE g \in Generations(genMap) : \A h \in Generations(genMap) : g <= h
MaxG(genMap) == CHOOSE g \in Generations(genMap) : \A h \in Generations(genMap) : g >= h

RowOf(genMap, g) ==
    LET e == SelectSeq(genMap, LAMBDA x : x.g = g)
    IN  [k \in 1..Len(e) |-> e[k].id]

\* One row for every generation written, none for a generation in between.
Normalized_Compacted(genMap) ==
    LET present == Ascending(Generations(genMap))
    IN  [r \in 1..Len(present) |-> RowOf(genMap, present[r])]

Normalized(genMap) ==
    [r \in 1..(MaxG(genMap) - MinG(genMap) + 1) |-> RowOf(genMap, MinG(genMap) + r - 1)]

\* The clustering token of an identifier: the last token of the name of its
\* first parent by edge order, else of its own name ('' for nobody's name).
NameOf(ms, id) == IF HasMember(ms, id) THEN ById(ms, id).name ELSE ""

TokenOf(ms, pE, id) ==
    LET candParents == SelectSeq(pE, LAMBDA e : e[2] = id)
        parentToken == IF Len(candParents) > 0 /\ candParents[1][1] # ""
                       THEN lastToken(NameOf(ms, candParents[1][1])) ELSE ""
    IN  IF parentToken # "" THEN parentToken ELSE lastToken(NameOf(ms, id))

\* families: Map<string, string[]> in insertion order, a Seq of [key, ids]:
\* the keys in the order of their first identifier in the row, each with the
\* identifiers of the row that have it, in row order.
FamiliesByToken(row, token) ==
    LET firsts == SelectSeq([k \in 1..Len(row) |-> k],
                            LAMBDA k : \A j \in 1..(k - 1) : token[j] # token[k])
        members_of(key) == SelectSeq([k \in 1..Len(row) |-> k], LAMBDA k : token[k] = key)
    IN  Array([f \in 1..Len(firsts) |->
            [key |-> token[firsts[f]],
             ids |-> Array([k \in 1..Len(members_of(token[firsts[f]])) |->
                               row[members_of(token[firsts[f]])[k]]])]])

Families(ms, pE, row) ==
    CHOOSE families \in
        {FamiliesByToken(row, token) :
            token \in {Array([k \in 1..Len(row) |-> TokenOf(ms, pE, row[k])])}} : TRUE

\* The comparator of a bucket without the names.
CompareInBucket_YearOnly(ms, a, b) ==
    OrElse(year(ById(ms, a).dateOfBirth), 9999) - OrElse(year(ById(ms, b).dateOfBirth), 9999)

\* The comparator of a bucket: DOB then name.  It reads a field of
\* byId.get(a) and of byId.get(b): a TypeError when one of them is undefined.
CompareInBucket(ms, a, b) ==
    LET ya == OrElse(year(ById(ms, a).dateOfBirth), 9999)
        yb == OrElse(year(ById(ms, b).dateOfBirth), 9999)
    IN  IF ya # yb THEN ya - yb
        ELSE localeCompare(ById(ms, a).name, ById(ms, b).name)

\* ids.sort(comparator) calls the comparator when ids has two elements or
\* more, and then on every element.
SortThrows(ms, ids) == Len(ids) >= 2 /\ \E k \in 1..Len(ids) : ~HasMember(ms, ids[k])

\* The comparator of a bucket on every two of its identifiers.
ComparisonsInBucket(ms, ids) ==
    Array([i \in 1..Len(ids) |->
        Array([j \in 1..Len(ids) |-> CompareInBucket(ms, ids[i], ids[j])])])

SortedBucket(ms, ids) ==
    IF Len(ids) < 2 THEN ids
    ELSE StableSort(ids, ComparisonsInBucket(ms, ids))

RECURSIVE Flatten(_)
Flatten(ss) == IF ss = << >> THEN << >> ELSE Head(ss) \o Flatten(Tail(ss))

RowThrows(ms, pE, row) ==
    \E fam \in {Families(ms, pE, row)} :
        \E k \in 1..Len(fam) : SortThrows(ms, fam[k].ids)

\* The comparator of the buckets, A.key.localeCompare(B.key), on every two.
ComparisonsByKey(buckets) ==
    Array([i \in 1..Len(buckets) |->
        Array([j \in 1..Len(buckets) |-> localeCompare(buckets[i].key, buckets[j].key)])])

\* The buckets sorted inside, then by key, then flattened.
OrderedFamilies(ms, fam) ==
    CHOOSE ordered \in
        {Flatten([k \in 1..Len(byKey) |-> byKey[k].ids]) :
            byKey \in {StableSort(sortedBuckets, ComparisonsByKey(sortedBuckets)) :
                sortedBuckets \in {Array([k \in 1..Len(fam) |->
                    [key |-> fam[k].key, ids |-> SortedBucket(ms, fam[k].ids)]])}}} : TRUE

\* One row, ordered.
OrderedRow(ms, pE, row) ==
    CHOOSE ordered \in {OrderedFamilies(ms, fam) : fam \in {Families(ms, pE, row)}} : TRUE

\* infer straight vertical edges between adjacent levels: kid i of a row
\* hangs under parent min(i, last) of the row before, when there is one.
InferredBetween(parents, kids) ==
    LET idx == SelectSeq([i \in 1..Len(kids) |-> i],
                         LAMBDA i : Len(parents) > 0
                                    /\ parents[IF i < Len(parents) THEN i ELSE Len(parents)] # "")
    IN  [k \in 1..Len(idx) |->
            <<parents[IF idx[k] < Len(parents) THEN idx[k] ELSE Len(parents)], kids[idx[k]]>>]

RECURSIVE InferredEdges(_, _)
InferredEdges(lv, r) ==
    IF r >= Len(lv) THEN << >>
    ELSE InferredBetween(lv[r], lv[r + 1]) \o InferredEdges(lv, r + 1)

\* The edges returned: the explicit ones, inferred ones when there is none.
ProvidedPEdges(pE, lv) == IF Len(pE) = 0 THEN InferredEdges(lv, 1) ELSE pE

\* A call that ends in an error instead of a value.
Layout_Throwing(lv, pE, sE) ==
    [threw |-> TRUE, levels |-> << >>, pEdges |-> << >>, sEdges |-> << >>]

Layout(lv, pE, sE) == [threw |-> FALSE, levels |-> lv, pEdges |-> pE, sEdges |-> sE]
Thrown == [threw |-> TRUE, levels |-> << >>, pEdges |-> << >>, sEdges |-> << >>]
NoResult == Layout(<< >>, << >>, << >>)

-----------------------------------------------------------------------------
(* The stored tree and the responses of the family-tree API, before any
   request *)

NoTree == [exists |-> FALSE, owner |-> "", privacy |-> "", members |-> << >>,
           memberCount |-> 0]
NoResponse == [route |-> "", user |-> "", status |-> 0, body |-> None]

\* No tree is stored and no request was made.
ApiIdle ==
    /\ tree = NoTree
    /\ issued = 0
    /\ added = None
    /\ response = NoResponse
    /\ linkTrees = << >>
    /\ treeLinks = << >>
    /\ calls = << >>
    /\ rejected = {}

-----------------------------------------------------------------------------
(* The state machine *)

Init ==
    /\ \/ \E r \in 1..Len(Rosters) : \E n \in 0..MaxMembers :
             \E L \in LinkSets(n, MaxLinksOf(r)) : \E d \in DuplicateChoices(r, n) :
                 members = Entered(Collection(Rosters[r], n, L), d)
       \/ \E h \in 1..Len(Households) : members = Households[h]
    /\ input = members
    /\ pc = "call"
    /\ pEdges = << >>
    /\ sEdges = << >>
    /\ fallbackRoot = ""
    /\ q = << >>
    /\ seen = {}
    /\ gen = << >>
    /\ levels = << >>
    /\ result = NoResult
    /\ run = 1
    /\ first = NoResult
    /\ label = ""
    /\ delta = None
    /\ ApiIdle

\* if (!members.length) return { levels: [], pEdges: [], sEdges: [] }
ReturnEmpty ==
    /\ pc = "call"
    /\ Len(members) = 0
    /\ result' = Layout(<< >>, << >>, << >>)
    /\ pc' = "done"
    /\ UNCHANGED <<members, input, pEdges, sEdges, fallbackRoot, q, seen, gen,
                   levels, run, first, label, delta>>
    /\ UNCHANGED apiVars

\* Build explicit edges where provided
BuildEdges ==
    /\ pc = "call"
    /\ Len(members) > 0
    /\ pEdges' = ExplicitPEdges(members)
    /\ sEdges' = ExplicitSEdges(members)
    /\ pc' = "roots"
    /\ UNCHANGED <<members, input, fallbackRoot, q, seen, gen, levels, result,
                   run, first, label, delta>>
    /\ UNCHANGED apiVars

\* Roots, fallbackRoot and the initial queue
SelectRoots ==
    /\ pc = "roots"
    /\ fallbackRoot' = pickOldest(members)
    /\ members' = MembersAfterPickOldest(members)
    /\ q' = [k \in 1..Len(Roots(members, pEdges)) |->
                QueueEntry(Roots(members, pEdges)[k], 0)]
    /\ seen' = {}
    /\ gen' = << >>
    /\ pc' = "bfs"
    /\ UNCHANGED <<input, pEdges, sEdges, levels, result, run, first, label, delta>>
    /\ UNCHANGED apiVars

\* One turn of the while loop on an identifier seen before: continue
BfsSkip ==
    /\ pc = "bfs"
    /\ Len(q) > 0
    /\ Head(q).id \in seen
    /\ q' = Tail(q)
    /\ UNCHANGED <<members, input, pc, pEdges, sEdges, fallbackRoot, seen, gen,
                   levels, result, run, first, label, delta>>
    /\ UNCHANGED apiVars

\* One turn of the while loop on a new identifier
BfsVisit ==
    /\ pc = "bfs"
    /\ Len(q) > 0
    /\ Head(q).id \notin seen
    /\ LET id == Head(q).id
           g == Head(q).g
           seenNow == seen \cup {id}
       IN  /\ seen' = seenNow
           /\ gen' = Append(gen, QueueEntry(id, g))
           /\ q' = Tail(q) \o ChildPushes(pEdges, id, g, seenNow)
                           \o ParentPushes(pEdges, id, g, seenNow)
                           \o SpousePushes(sEdges, id, g, seenNow)
    /\ UNCHANGED <<members, input, pc, pEdges, sEdges, fallbackRoot, levels,
                   result, run, first, label, delta>>
    /\ UNCHANGED apiVars

\* Fill any unvisited nodes using relationship or DOB heuristic
Fill ==
    /\ pc = "bfs"
    /\ Len(q) = 0
    /\ gen' = Filled(members, gen, fallbackRoot)
    /\ pc' = "normalize"
    /\ UNCHANGED <<members, input, pEdges, sEdges, fallbackRoot, q, seen, levels,
                   result, run, first, label, delta>>
    /\ UNCHANGED apiVars

\* Normalize so top row is 0
Normalize ==
    /\ pc = "normalize"
    /\ levels' = Normalized(gen)
    /\ pc' = "order"
    /\ UNCHANGED <<members, input, pEdges, sEdges, fallbackRoot, q, seen, gen,
                   result, run, first, label, delta>>
    /\ UNCHANGED apiVars

\* Improve ordering within rows; the sort of a bucket may throw
OrderRows ==
    /\ pc = "order"
    /\ IF \E r \in 1..Len(levels) : RowThrows(members, pEdges, levels[r])
       THEN /\ result' = Thrown
            /\ pc' = "threw"
            /\ UNCHANGED levels
       ELSE /\ levels' = [r \in 1..Len(levels) |-> OrderedRow(members, pEdges, levels[r])]
            /\ pc' = "provide"
            /\ UNCHANGED result
    /\ UNCHANGED <<members, input, pEdges, sEdges, fallbackRoot, q, seen, gen,
                   run, first, label, delta>>
    /\ UNCHANGED apiVars

\* Provide edges and return
ProvideEdges ==
    /\ pc = "provide"
    /\ pEdges' = ProvidedPEdges(pEdges, levels)
    /\ result' = Layout(levels, pEdges', sEdges)
    /\ pc' = "done"
    /\ UNCHANGED <<members, input, sEdges, fallbackRoot, q, seen, gen, levels,
                   run, first, label, delta>>
    /\ UNCHANGED apiVars

\* The caller computes the layout of the same array once more.
Reinvoke ==
    /\ pc \in {"done", "threw"}
    /\ run = 1
    /\ run' = 2
    /\ first' = result
    /\ result' = NoResult
    /\ pc' = "call"
    /\ pEdges' = << >>
    /\ sEdges' = << >>
    /\ fallbackRoot' = ""
    /\ q' = << >>
    /\ seen' = {}
    /\ gen' = << >>
    /\ levels' = << >>
    /\ UNCHANGED <<members, input, label, delta>>
    /\ UNCHANGED apiVars

Next ==
    \/ ReturnEmpty
    \/ BuildEdges
    \/ SelectRoots
    \/ BfsSkip
    \/ BfsVisit
    \/ Fill
    \/ Normalize
    \/ OrderRows
    \/ ProvideEdges

\* One invocation of buildTreeLayout on every collection.
Spec == Init /\ [][Next]_vars

\* The sets of references without a motherId (a motherId gives the same
\* parent edge as a fatherId).
FatherLinkSets(n, k) == {L \in LinkSets(n, k) : \A l \in L : l.kind # "mother"}

\* The collections the work loop is run to its end on: the people of the
\* first roster, one member less than the largest collection, with every set
\* of at most MaxLinks references other than motherId.
InitRun ==
    /\ \E n \in 0..(MaxMembers - 1) : \E L \in FatherLinkSets(n, MaxLinks) :
          members = Collection(Rosters[1], n, L)
    /\ input = members
    /\ pc = "call"
    /\ pEdges = << >>
    /\ sEdges = << >>
    /\ fallbackRoot = ""
    /\ q = << >>
    /\ seen = {}
    /\ gen = << >>
    /\ levels = << >>
    /\ result = NoResult
    /\ run = 1
    /\ first = NoResult
    /\ label = ""
    /\ delta = None
    /\ ApiIdle

\* buildTreeLayout is a synchronous function: once the work loop is entered
\* it takes its next turn until the queue is empty, and the fill follows.
SpecRun == InitRun /\ [][Next]_vars /\ WF_vars(BfsSkip \/ BfsVisit \/ Fill)

NextTwice ==
    \/ Next
    \/ Reinvoke

\* Two invocations on the same array, one after the other.
SpecTwice == Init /\ [][NextTwice]_vars

-----------------------------------------------------------------------------
(* relDeltaFromRoot on its own *)

LabelGreats == {"", "Great-", "great ", "Great", "Great-Great-", "great great "}
LabelGrands == {"", "Grand", "grand-", "Grand "}
LabelStems == {"father", "Mother", "parent", "dad", "mom", "son", "Daughter",
               "child", "kid", "uncle", "aunt", "nephew", "niece", "sister",
               "brother", "sibling", "cousin"}
LabelEnds == {"", "-in-law"}

\* The relationship labels tried: "Great-Grandfather", "grand-son", ...
Labels == {a \o b \o c \o d : a \in LabelGreats, b \in LabelGrands,
                              c \in LabelStems, d \in LabelEnds}

InitLexicon ==
    /\ label \in Labels
    /\ delta = None
    /\ pc = "label"
    /\ members = << >>
    /\ input = << >>
    /\ pEdges = << >>
    /\ sEdges = << >>
    /\ fallbackRoot = ""
    /\ q = << >>
    /\ seen = {}
    /\ gen = << >>
    /\ levels = << >>
    /\ result = NoResult
    /\ run = 1
    /\ first = NoResult
    /\ ApiIdle

\* const d = relDeltaFromRoot(m.relationship)
ResolveLabel ==
    /\ pc = "label"
    /\ delta' = relDeltaFromRoot(label)
    /\ pc' = "resolved"
    /\ UNCHANGED <<members, input, pEdges, sEdges, fallbackRoot, q, seen, gen,
                   levels, result, run, first, label>>
    /\ UNCHANGED apiVars

NextLexicon == ResolveLabel

\* relDeltaFromRoot applied to every label.
SpecLexicon == InitLexicon /\ [][NextLexicon]_vars

-----------------------------------------------------------------------------
(* The family-tree routes of the backend: one tree identifier, every request
   made by an authenticated user (the auth middleware sets req.user) *)

\* The most member _ids the database generates.
MaxAdds == 2

\* req.user._id of the users that make requests.
Users == {"ann", "ben"}

\* privacy: enum ['public', 'private', 'restricted']
Privacies == {"public", "private", "restricted"}

\* The privacy values of request bodies: those of the enum and one outside it.
PrivacyInputs == Privacies \cup {"secret"}

\* The member _id the database generates next.
NewMemberId(n) == n + 1

\* familyTreeSchema.pre('save'): this.memberCount = this.members.length
PreSave(t) == [t EXCEPT !.memberCount = Len(t.members)]

\* tree.memberCount = tree.members.length
CountMembers(t) == [t EXCEPT !.memberCount = Len(t.members)]

\* members.push with the new member put in front of the list.
Pushed_InFront(ms, id) == <<id>> \o ms

\* tree.members.push(newMember)
Pushed(ms, id) == Append(ms, id)

\* tree.members.pull(memberId)
Pulled(ms, id) == SelectSeq(ms, LAMBDA m : m # id)

\* tree.members.id(memberId)
HasId(ms, id) == \E k \in 1..Len(ms) : ms[k] = id

Response(route, user, status, body) ==
    [route |-> route, user |-> user, status |-> status, body |-> body]

\* new FamilyTree({ name, description, privacy, owner, members: [] })
NewTree(owner, privacy) ==
    [exists |-> TRUE, owner |-> owner, privacy |-> privacy, members |-> << >>,
     memberCount |-> 0]

\* No request has been made and no tree is stored; the layout engine is idle.
InitTrees ==
    /\ ApiIdle
    /\ members = << >>
    /\ input = << >>
    /\ pc = "api"
    /\ pEdges = << >>
    /\ sEdges = << >>
    /\ fallbackRoot = ""
    /\ q = << >>
    /\ seen = {}
    /\ gen = << >>
    /\ levels = << >>
    /\ result = NoResult
    /\ run = 1
    /\ first = NoResult
    /\ label = ""
    /\ delta = None

\* What no request to the family-tree API changes.
LayoutUnchanged ==
    UNCHANGED <<members, input, pc, pEdges, sEdges, fallbackRoot, q, seen, gen,
                levels, result, run, first, label, delta>>

\* What no request to the family-tree routes changes.
LinksUnchanged == UNCHANGED <<linkTrees, treeLinks, calls, rejected>>

\* POST /family-trees: the save fails on a privacy outside the enum
CreateTree(u, privacy) ==
    /\ pc = "api"
    /\ ~tree.exists
    /\ IF privacy \in Privacies
       THEN /\ tree' = PreSave(NewTree(u, privacy))
            /\ response' = Response("POST /", u, 201, Some(tree'))
       ELSE /\ response' = Response("POST /", u, 500, None)
            /\ UNCHANGED tree
    /\ UNCHANGED <<issued, added>>
    /\ LayoutUnchanged
    /\ LinksUnchanged

\* GET /family-trees/:id
GetTree(u) ==
    /\ pc = "api"
    /\ response' =
         IF ~tree.exists THEN Response("GET /:id", u, 404, None)
         ELSE IF tree.owner # u /\ tree.privacy = "private"
              THEN Response("GET /:id", u, 403, None)
         ELSE Response("GET /:id", u, 200, Some(tree))
    /\ UNCHANGED <<tree, issued, added>>
    /\ LayoutUnchanged
    /\ LinksUnchanged

\* PUT /family-trees/:id; privacy "" is a body without privacy
UpdateTree(u, privacy) ==
    /\ pc = "api"
    /\ IF ~tree.exists
       THEN /\ response' = Response("PUT /:id", u, 404, None)
            /\ UNCHANGED tree
       ELSE IF tree.owner # u
       THEN /\ response' = Response("PUT /:id", u, 403, None)
            /\ UNCHANGED tree
       ELSE IF privacy \notin Privacies \cup {""}
       THEN /\ response' = Response("PUT /:id", u, 500, None)
            /\ UNCHANGED tree
       ELSE /\ tree' = PreSave(IF privacy # "" THEN [tree EXCEPT !.privacy = privacy]
                                ELSE tree)
            /\ response' = Response("PUT /:id", u, 200, Some(tree'))
    /\ UNCHANGED <<issued, added>>
    /\ LayoutUnchanged
    /\ LinksUnchanged

\* DELETE /family-trees/:id
DeleteTree(u) ==
    /\ pc = "api"
    /\ IF ~tree.exists
       THEN /\ response' = Response("DELETE /:id", u, 404, None)
            /\ UNCHANGED <<tree, added>>
       ELSE IF tree.owner # u
       THEN /\ response' = Response("DELETE /:id", u, 403, None)
            /\ UNCHANGED <<tree, added>>
       ELSE /\ tree' = NoTree
            /\ added' = None
            /\ response' = Response("DELETE /:id", u, 200, None)
    /\ UNCHANGED issued
    /\ LayoutUnchanged
    /\ LinksUnchanged

\* POST /family-trees/:id/members; valid: the body has name and relationship
AddMember(u, valid) ==
    /\ pc = "api"
    /\ issued < MaxAdds
    /\ IF ~tree.exists
       THEN /\ response' = Response("POST /:id/members", u, 404, None)
            /\ UNCHANGED <<tree, issued, added>>
       ELSE IF tree.owner # u
       THEN /\ response' = Response("POST /:id/members", u, 403, None)
            /\ UNCHANGED <<tree, issued, added>>
       ELSE IF ~valid
       THEN /\ response' = Response("POST /:id/members", u, 400, None)
            /\ UNCHANGED <<tree, issued, added>>
       ELSE /\ issued' = issued + 1
            /\ tree' = PreSave(CountMembers(
                         [tree EXCEPT !.members = Pushed(@, NewMemberId(issued))]))
            /\ added' = Some(NewMemberId(issued))
            /\ response' = Response("POST /:id/members", u, 201,
                                    Some(tree'.members[Len(tree'.members)]))
    /\ LayoutUnchanged
    /\ LinksUnchanged

\* PUT /family-trees/:id/members/:memberId
UpdateMember(u, memberId) ==
    /\ pc = "api"
    /\ IF ~tree.exists
       THEN /\ response' = Response("PUT /:id/members/:memberId", u, 404, None)
            /\ UNCHANGED tree
       ELSE IF tree.owner # u
       THEN /\ response' = Response("PUT /:id/members/:memberId", u, 403, None)
            /\ UNCHANGED tree
       ELSE IF ~HasId(tree.members, memberId)
       THEN /\ response' = Response("PUT /:id/members/:memberId", u, 404, None)
            /\ UNCHANGED tree
       ELSE /\ tree' = PreSave(tree)
            /\ response' = Response("PUT /:id/members/:memberId", u, 200, Some(memberId))
    /\ UNCHANGED <<issued, added>>
    /\ LayoutUnchanged
    /\ LinksUnchanged

\* DELETE /family-trees/:id/members/:memberId
DeleteMember(u, memberId) ==
    /\ pc = "api"
    /\ IF ~tree.exists
       THEN /\ response' = Response("DELETE /:id/members/:memberId", u, 404, None)
            /\ UNCHANGED tree
       ELSE IF tree.owner # u
       THEN /\ response' = Response("DELETE /:id/members/:memberId", u, 403, None)
            /\ UNCHANGED tree
       ELSE /\ tree' = PreSave(CountMembers(
                         [tree EXCEPT !.members = Pulled(@, memberId)]))
            /\ response' = Response("DELETE /:id/members/:memberId", u, 200, Some(tree'))
    /\ UNCHANGED <<issued, added>>
    /\ LayoutUnchanged
    /\ LinksUnchanged

NextTrees ==
    \/ \E u \in Users : \E privacy \in PrivacyInputs : CreateTree(u, privacy)
    \/ \E u \in Users : GetTree(u)
    \/ \E u \in Users : \E privacy \in PrivacyInputs \cup {""} : UpdateTree(u, privacy)
    \/ \E u \in Users : DeleteTree(u)
    \/ \E u \in Users : \E valid \in BOOLEAN : AddMember(u, valid)
    \/ \E u \in Users : \E memberId \in 1..MaxAdds : UpdateMember(u, memberId)
    \/ \E u \in Users : \E memberId \in 1..MaxAdds : DeleteMember(u, memberId)

\* The requests to the family-tree routes, one after the other.
SpecTrees == InitTrees /\ [][NextTrees]_vars

-----------------------------------------------------------------------------
(* The tree-link routes of the backend: two trees of two owners and an
   administrator; every request made by an authenticated user.  The handler
   of POST /request awaits the database between its checks and its save, so
   it is two steps; the other handlers are one step each. *)

\* The most TreeLink documents created.
MaxLinkRequests == 2

\* The _ids of the stored trees and the owner of each.
TreeIds == {"t1", "t2"}
TreeOwner(t) == IF t = "t1" THEN "ann" ELSE "ben"

\* The users that make requests: the owners and a user of role 'admin'.
LinkUsers == Users \cup {"root"}
Role(u) == IF u = "root" THEN "admin" ELSE "user"

\* status: enum ['pending', 'accepted', 'rejected', 'disputed', 'merged']
Statuses == {"pending", "accepted", "rejected", "disputed", "merged"}

\* status: { $in: ['pending', 'accepted', 'merged'] }
ActiveStatuses == {"pending", "accepted", "merged"}

\* finalStatus of the body of a resolve request: a value of the enum, none,
\* or a value outside the enum.
FinalStatusInputs == Statuses \cup {"", "void"}

\* new TreeLink({ sourceTree, targetTree, sourceOwner, targetOwner, ... }):
\* status defaults to 'pending'.  deleted: findByIdAndDelete has removed it.
NewTreeLink(id, source, target, user, owner) ==
    [id |-> id, sourceTree |-> source, targetTree |-> target,
     sourceOwner |-> user, targetOwner |-> owner, status |-> "pending",
     deleted |-> FALSE]

\* TreeLink.findById(linkId) finds a document
Found(links, linkId) == linkId \in 1..Len(links) /\ ~links[linkId].deleted

\* TreeLink.findOne({ $or: [{source, target}, {target, source}],
\*                    status: { $in: [...] } }) finds a document
ExistingLink(links, source, target) ==
    \E k \in 1..Len(links) :
        /\ ~links[k].deleted
        /\ \/ links[k].sourceTree = source /\ links[k].targetTree = target
           \/ links[k].sourceTree = target /\ links[k].targetTree = source
        /\ links[k].status \in ActiveStatuses

\* An entry of linkedTrees.
LinkedEntry(treeId, linkId, linkStatus) ==
    [treeId |-> treeId, linkId |-> linkId, linkStatus |-> linkStatus]

\* FamilyTree.findByIdAndUpdate(id, { $push: { linkedTrees: entry } })
PushLinked(trees, id, entry) ==
    IF id \in DOMAIN trees
    THEN [trees EXCEPT ![id].linkedTrees = Append(@, entry)]
    ELSE trees

\* { $set: { 'linkedTrees.$.linkStatus': status } } on one tree: the
\* positional operator updates the first entry that matches the query.
SetFirstLinked(entries, linkId, linkStatus) ==
    LET matching == {k \in 1..Len(entries) : entries[k].linkId = linkId}
    IN  IF matching = {} THEN entries
        ELSE [entries EXCEPT
                ![CHOOSE k \in matching : \A j \in matching : k <= j].linkStatus = linkStatus]

\* FamilyTree.updateMany({ 'linkedTrees.linkId': linkId }, { $set: ... })
SetLinkStatus(trees, linkId, linkStatus) ==
    [t \in DOMAIN trees |->
        [trees[t] EXCEPT !.linkedTrees = SetFirstLinked(@, linkId, linkStatus)]]

\* FamilyTree.updateMany({ 'linkedTrees.linkId': linkId },
\*                       { $pull: { linkedTrees: { linkId } } })
PullLinked(trees, linkId) ==
    [t \in DOMAIN trees |->
        [trees[t] EXCEPT !.linkedTrees = SelectSeq(@, LAMBDA e : e.linkId # linkId)]]

\* The link a decision of the target owner leaves.
Decided(link, status) == [link EXCEPT !.status = status]

\* Two trees are stored, each allowing linking or not; no TreeLink, no
\* request; the layout engine is idle.
InitLinks ==
    /\ \E allow \in [TreeIds -> BOOLEAN] :
          linkTrees = [t \in TreeIds |->
                         [owner |-> TreeOwner(t), allowLinking |-> allow[t],
                          linkedTrees |-> << >>]]
    /\ treeLinks = << >>
    /\ calls = [u \in Users |-> None]
    /\ rejected = {}
    /\ tree = NoTree
    /\ issued = 0
    /\ added = None
    /\ response = NoResponse
    /\ members = << >>
    /\ input = << >>
    /\ pc = "links"
    /\ pEdges = << >>
    /\ sEdges = << >>
    /\ fallbackRoot = ""
    /\ q = << >>
    /\ seen = {}
    /\ gen = << >>
    /\ levels = << >>
    /\ result = NoResult
    /\ run = 1
    /\ first = NoResult
    /\ label = ""
    /\ delta = None

\* What no request to the tree-link routes changes.
TreesUnchanged == UNCHANGED <<tree, issued, added, response>>

\* The number of link requests between their checks and their save.
InFlight == Cardinality({u \in Users : calls[u] # None})

\* POST /tree-links/request, up to the query for an existing link; mapped:
\* the body has a relationshipMapping array
RequestChecks(u, source, target, mapped) ==
    /\ pc = "links"
    /\ calls[u] = None
    /\ Len(treeLinks) + InFlight < MaxLinkRequests
    /\ IF ~mapped
       THEN UNCHANGED calls
       ELSE IF target \notin DOMAIN linkTrees
       THEN UNCHANGED calls
       ELSE IF ~linkTrees[target].allowLinking
       THEN UNCHANGED calls
       ELSE IF linkTrees[target].owner = u
       THEN UNCHANGED calls
       ELSE IF ExistingLink(treeLinks, source, target)
       THEN UNCHANGED calls
       ELSE /\ calls' = [calls EXCEPT ![u] =
                            Some([source |-> source, target |-> target,
                                  owner |-> linkTrees[target].owner])]
    /\ UNCHANGED <<linkTrees, treeLinks>>
    /\ UNCHANGED rejected
    /\ TreesUnchanged
    /\ LayoutUnchanged

\* POST /tree-links/request, from treeLink.save() on: the link is stored
\* and an entry is pushed to the source tree and to the target tree
RequestSaves(u) ==
    /\ pc = "links"
    /\ calls[u] # None
    /\ LET call == calls[u][1]
           linkId == Len(treeLinks) + 1
       IN  /\ treeLinks' = Append(treeLinks,
                                  NewTreeLink(linkId, call.source, call.target, u, call.owner))
           /\ linkTrees' =
                 PushLinked(PushLinked(linkTrees, call.source,
                                       LinkedEntry(call.target, linkId, "pending")),
                            call.target, LinkedEntry(call.source, linkId, "pending"))
    /\ calls' = [calls EXCEPT ![u] = None]
    /\ UNCHANGED rejected
    /\ TreesUnchanged
    /\ LayoutUnchanged

\* PUT /tree-links/:linkId/accept
AcceptLink(u, linkId) ==
    /\ pc = "links"
    /\ IF ~Found(treeLinks, linkId)
       THEN UNCHANGED <<linkTrees, treeLinks>>
       ELSE IF treeLinks[linkId].targetOwner # u
       THEN UNCHANGED <<linkTrees, treeLinks>>
       ELSE IF treeLinks[linkId].status # "pending"
       THEN UNCHANGED <<linkTrees, treeLinks>>
       ELSE /\ treeLinks' = [treeLinks EXCEPT ![linkId] = Decided(@, "accepted")]
            /\ linkTrees' = SetLinkStatus(linkTrees, linkId, "accepted")
    /\ UNCHANGED calls
    /\ UNCHANGED rejected
    /\ TreesUnchanged
    /\ LayoutUnchanged

\* PUT /tree-links/:linkId/reject
RejectLink(u, linkId) ==
    /\ pc = "links"
    /\ IF ~Found(treeLinks, linkId)
       THEN UNCHANGED <<linkTrees, treeLinks, rejected>>
       ELSE IF treeLinks[linkId].targetOwner # u
       THEN UNCHANGED <<linkTrees, treeLinks, rejected>>
       ELSE IF treeLinks[linkId].status # "pending"
       THEN UNCHANGED <<linkTrees, treeLinks, rejected>>
       ELSE /\ treeLinks' = [treeLinks EXCEPT ![linkId] = Decided(@, "rejected")]
            /\ linkTrees' = PullLinked(linkTrees, linkId)
            /\ rejected' = rejected \cup {linkId}
    /\ UNCHANGED calls
    /\ TreesUnchanged
    /\ LayoutUnchanged

\* PUT /tree-links/:linkId/dispute; described: the body has reason and
\* description
DisputeLink(u, linkId, described) ==
    /\ pc = "links"
    /\ IF ~described
       THEN UNCHANGED treeLinks
       ELSE IF ~Found(treeLinks, linkId)
       THEN UNCHANGED treeLinks
       ELSE IF treeLinks[linkId].sourceOwner # u /\ treeLinks[linkId].targetOwner # u
       THEN UNCHANGED treeLinks
       ELSE IF treeLinks[linkId].status = "disputed"
       THEN UNCHANGED treeLinks
       ELSE /\ treeLinks' = [treeLinks EXCEPT ![linkId].status = "disputed"]
    /\ UNCHANGED <<linkTrees, calls>>
    /\ UNCHANGED rejected
    /\ TreesUnchanged
    /\ LayoutUnchanged

\* PUT /tree-links/admin/:linkId/resolve, behind isAdmin; the entries are
\* pulled before the save, which fails on a status outside the enum
ResolveLink(u, linkId, finalStatus) ==
    /\ pc = "links"
    /\ IF Role(u) # "admin"
       THEN UNCHANGED <<linkTrees, treeLinks>>
       ELSE IF finalStatus = ""
       THEN UNCHANGED <<linkTrees, treeLinks>>
       ELSE IF ~Found(treeLinks, linkId)
       THEN UNCHANGED <<linkTrees, treeLinks>>
       ELSE IF treeLinks[linkId].status # "disputed"
       THEN UNCHANGED <<linkTrees, treeLinks>>
       ELSE /\ linkTrees' = IF finalStatus = "rejected"
                            THEN PullLinked(linkTrees, linkId) ELSE linkTrees
            /\ IF finalStatus \in Statuses
               THEN treeLinks' = [treeLinks EXCEPT ![linkId].status = finalStatus]
               ELSE UNCHANGED treeLinks
    /\ UNCHANGED calls
    /\ UNCHANGED rejected
    /\ TreesUnchanged
    /\ LayoutUnchanged

\* DELETE /tree-links/:linkId
CancelLink(u, linkId) ==
    /\ pc = "links"
    /\ IF ~Found(treeLinks, linkId)
       THEN UNCHANGED <<linkTrees, treeLinks>>
       ELSE IF treeLinks[linkId].sourceOwner # u
       THEN UNCHANGED <<linkTrees, treeLinks>>
       ELSE IF treeLinks[linkId].status # "pending"
       THEN UNCHANGED <<linkTrees, treeLinks>>
       ELSE /\ linkTrees' = PullLinked(linkTrees, linkId)
            /\ treeLinks' = [treeLinks EXCEPT ![linkId].deleted = TRUE]
    /\ UNCHANGED calls
    /\ UNCHANGED rejected
    /\ TreesUnchanged
    /\ LayoutUnchanged

NextLinks ==
    \/ \E u \in Users : \E source, target \in TreeIds \cup {"t0"} :
          \E mapped \in BOOLEAN : RequestChecks(u, source, target, mapped)
    \/ \E u \in Users : RequestSaves(u)
    \/ \E u \in Users : \E linkId \in 1..MaxLinkRequests : AcceptLink(u, linkId)
    \/ \E u \in Users : \E linkId \in 1..MaxLinkRequests : RejectLink(u, linkId)
    \/ \E u \in Users : \E linkId \in 1..MaxLinkRequests :
          \E described \in BOOLEAN : DisputeLink(u, linkId, described)
    \/ \E u \in LinkUsers : \E linkId \in 1..MaxLinkRequests :
          \E finalStatus \in FinalStatusInputs : ResolveLink(u, linkId, finalStatus)
    \/ \E u \in Users : \E linkId \in 1..MaxLinkRequests : CancelLink(u, linkId)

\* The requests to the tree-link routes in any order, a link request of one
\* user between the checks and the save of a link request of another.
SpecLinks == InitLinks /\ [][NextLinks]_vars

-----------------------------------------------------------------------------
(* Properties of buildTreeLayout *)

\* the identifiers of a collection are pairwise distinct
UniqueIds(ms) == \A i, j \in 1..Len(ms) : ms[i].id = ms[j].id => i = j

\* buildTreeLayout has returned a layout of a non-empty collection
Returned == pc = "done" /\ Len(input) > 0 /\ UniqueIds(input)

\* the places (row, index) at which the rows hold an identifier
PlacesOf(lv, id) ==
    UNION {{<<r, k>> : k \in {k \in 1..Len(lv[r]) : lv[r][k] = id}} :
           r \in 1..Len(lv)}

\* the identifiers the rows hold
IdsIn(lv) == {Flatten(lv)[k] : k \in 1..Len(Flatten(lv))}

\* the identifiers the members refer to that no member bears
DanglingIds(ms) ==
    UNION {({ms[i].fatherId, ms[i].motherId} \ {""})
           \cup {ms[i].spouseIds[k] : k \in 1..Len(ms[i].spouseIds)}
           \cup {ms[i].childrenIds[k] : k \in 1..Len(ms[i].childrenIds)}
           : i \in 1..Len(ms)} \ MemberIds(ms)

\* C1: for a non-empty collection of members with distinct identifiers,
\* every member's identifier stands at exactly one place of exactly one row:
\* of the rows built from the generations, whatever the references of the
\* members, and of the rows buildTreeLayout returns.
C1_EveryMemberInOneRow ==
    /\ (pc \in {"order", "provide"} /\ Len(input) > 0 /\ UniqueIds(input)) =>
           \A id \in MemberIds(input) : Cardinality(PlacesOf(levels, id)) = 1
    /\ Returned =>
           \A id \in MemberIds(input) :
               Cardinality(PlacesOf(result.levels, id)) = 1

\* C1 case: three members, one reached by the traversal through no edge and
\* placed by the fill loop, next to a row that also holds a dangling
\* identifier.
C1_FilledMemberReturned ==
    /\ Returned
    /\ Len(input) = 3
    /\ \E id \in MemberIds(input) : id \notin seen
    /\ DanglingIds(input) \cap seen # {}

\* C2: the identifiers in the returned rows are exactly the identifiers of
\* the members: no row holds an identifier that no member bears.
C2_RowsHoldOnlyMembers ==
    Returned => IdsIn(result.levels) = MemberIds(input)

\* C3: both ends of every returned parent edge and of every returned spouse
\* edge are identifiers of members.
C3_EdgesJoinMembers ==
    Returned =>
        \A e \in {result.pEdges[k] : k \in 1..Len(result.pEdges)}
                 \cup {result.sEdges[k] : k \in 1..Len(result.sEdges)} :
            e[1] \in MemberIds(input) /\ e[2] \in MemberIds(input)

\* C4: buildTreeLayout throws on no collection of members with distinct
\* identifiers, whatever identifiers the members refer to.
C4_NeverThrows == UniqueIds(input) => pc # "threw"

\* the members are a chain: the second names the first as mother, the third
\* names the second as father, and there is no other link
IsChain(ms) ==
    /\ Len(ms) = 3
    /\ UniqueIds(ms)
    /\ ms[1].fatherId = "" /\ ms[1].motherId = ""
    /\ ms[2].fatherId = "" /\ ms[2].motherId = ms[1].id
    /\ ms[3].fatherId = ms[2].id /\ ms[3].motherId = ""
    /\ \A i \in 1..3 : ms[i].spouseIds = << >> /\ ms[i].childrenIds = << >>

\* the parent edges of the chain, in the order of the members
ChainEdges(ms) == << <<ms[1].id, ms[2].id>>, <<ms[2].id, ms[3].id>> >>

\* C5: for the chain 1 -> 2 -> 3 the returned rows are [[3],[2],[1]], the
\* youngest generation in row 0, and the parent edges are exactly
\* [(1,2),(2,3)].
C5_ChainYoungestRowFirst ==
    (pc = "done" /\ IsChain(input)) =>
        /\ result.levels = << <<input[3].id>>, <<input[2].id>>, <<input[1].id>> >>
        /\ result.pEdges = ChainEdges(input)

\* C5 as stated: for the chain 1 -> 2 -> 3 the returned rows are
\* [[1],[2],[3]] and the parent edges are exactly [(1,2),(2,3)].
C5_ChainEldestRowFirst ==
    (pc = "done" /\ IsChain(input)) =>
        /\ result.levels = << <<input[1].id>>, <<input[2].id>>, <<input[3].id>> >>
        /\ result.pEdges = ChainEdges(input)

\* C5 case: the layout of the chain has been returned.
C5_ChainReturned == pc = "done" /\ IsChain(input)

\* three members without any link and without birth dates, labelled
\* Grandfather, Father and Son
IsThreeLabelled(ms) ==
    /\ Len(ms) = 3
    /\ UniqueIds(ms)
    /\ <<ms[1].relationship, ms[2].relationship, ms[3].relationship>>
         = <<"Grandfather", "Father", "Son">>
    /\ \A i \in 1..3 :
         /\ ms[i].dateOfBirth = ""
         /\ ms[i].fatherId = "" /\ ms[i].motherId = ""
         /\ ms[i].spouseIds = << >> /\ ms[i].childrenIds = << >>

\* the row (index) holding an identifier, 0 when no row holds it
RowIndexOf(lv, id) ==
    IF \E r \in 1..Len(lv) : \E k \in 1..Len(lv[r]) : lv[r][k] = id
    THEN CHOOSE r \in 1..Len(lv) : \E k \in 1..Len(lv[r]) : lv[r][k] = id
    ELSE 0

\* C6: three members without links and without birth dates, labelled
\* Grandfather, Father and Son, are laid out in exactly three rows of one
\* member each, with exactly two parent edges, each from a row to the next.
C6_LabelsGiveThreeRows ==
    (pc = "done" /\ IsThreeLabelled(input)) =>
        /\ Len(result.levels) = 3
        /\ \A r \in 1..Len(result.levels) : Len(result.levels[r]) = 1
        /\ Len(result.pEdges) = 2
        /\ \A k \in 1..Len(result.pEdges) :
             RowIndexOf(result.levels, result.pEdges[k][2])
               = RowIndexOf(result.levels, result.pEdges[k][1]) + 1

\* the offset of the most specific pattern a label matches: the great-grand
\* and grand patterns of a word before the word's own pattern
MostSpecificDelta(rel) ==
    LET r == toLowerCase(rel)
    IN  IF TestGreatGreatGrand(r, Elders) THEN Some(3)
        ELSE IF TestGreatGrand(r, Elders) THEN Some(2)
        ELSE IF TestGrand(r, Elders) THEN Some(1)
        ELSE IF TestWord(r, {"father", "mother", "parent", "dad", "mom"}) THEN Some(1)
        ELSE IF TestGreatGrand(r, Youngsters) THEN Some(-3)
        ELSE IF TestGrand(r, Youngsters) THEN Some(-2)
        ELSE IF TestWord(r, {"son", "daughter", "child", "kid"}) THEN Some(-1)
        ELSE IF TestWord(r, {"uncle", "aunt"}) THEN Some(1)
        ELSE IF TestWord(r, {"nephew", "niece"}) THEN Some(-1)
        ELSE IF TestWord(r, {"sister", "brother", "sibling"}) THEN Some(0)
        ELSE None

\* C7: relDeltaFromRoot resolves every label to the offset of the most
\* specific pattern it matches; a great-grand(son|daughter|child) label
\* resolves to -3, never to the -2 of the plainer grandson pattern.
C7_MostSpecificPatternWins ==
    pc = "resolved" => delta = MostSpecificDelta(label)

\* C8: the label "Great-Grandfather" resolves to the great-grand tier, which
\* the code places two generations above the root (+2), never to the +1 of
\* the plainer Grandfather pattern.
C8_GreatGrandfatherTwoUp ==
    (pc = "resolved" /\ label = "Great-Grandfather") => delta = Some(2)

\* C8 as stated: the label "Great-Grandfather" resolves to +3.
C8_GreatGrandfatherThreeUp ==
    (pc = "resolved" /\ label = "Great-Grandfather") => delta = Some(3)

\* C8 case: the label "Great-Grandfather" has been resolved.
C8_GreatGrandfatherResolved == pc = "resolved" /\ label = "Great-Grandfather"

\* the member lists the identifier among its spouses once
ListsOnce(m, id) ==
    Cardinality({k \in 1..Len(m.spouseIds) : m.spouseIds[k] = id}) = 1

\* two different members that list each other as spouse once
MutualSpouses(ms, i, j) ==
    i # j /\ ListsOnce(ms[i], ms[j].id) /\ ListsOnce(ms[j], ms[i].id)

\* the returned spouse edges between two identifiers
SpouseEdgesBetween(sE, a, b) ==
    {k \in 1..Len(sE) : {sE[k][1], sE[k][2]} = {a, b}}

\* C9: two members that list each other as spouse yield exactly one spouse
\* edge between them, stored with the smaller identifier first.
C9_MutualSpousesOneEdge ==
    Returned =>
        \A i, j \in 1..Len(input) :
            MutualSpouses(input, i, j) =>
                /\ Cardinality(SpouseEdgesBetween(result.sEdges, input[i].id, input[j].id)) = 1
                /\ \A k \in SpouseEdgesBetween(result.sEdges, input[i].id, input[j].id) :
                       StringLess(result.sEdges[k][1], result.sEdges[k][2])

\* C9 case: a layout has been returned for members of whom two list each
\* other as spouse.
C9_MutualSpousesReturned ==
    Returned /\ \E i, j \in 1..Len(input) : MutualSpouses(input, i, j)

C11_DuplicateIdsFail == ~UniqueIds(input) => pc # "done"

\* C12: for an empty collection buildTreeLayout raises no error and returns
\* zero rows, zero parent edges and zero spouse edges.
C12_EmptyCollectionEmptyLayout ==
    Len(input) = 0 =>
        /\ pc \in {"call", "done"}
        /\ pc = "done" =>
              /\ ~result.threw
              /\ result.levels = << >>
              /\ result.pEdges = << >>
              /\ result.sEdges = << >>

\* C12 case: buildTreeLayout has returned for the empty collection.
C12_EmptyCollectionReturned == pc = "done" /\ Len(input) = 0

\* the identifiers of the members without an incoming parent edge, in input
\* order
Parentless(ms) == Candidates(ms, ExplicitPEdges(ms))

\* explicit parent links exist and at least one member has no incoming
\* parent edge
HasParentlessMember(ms) ==
    Len(ExplicitPEdges(ms)) > 0 /\ Len(Parentless(ms)) > 0

\* the identifiers in a sequence
Range(seq) == {seq[k] : k \in 1..Len(seq)}

\* C13: when explicit parent links exist and some member has no incoming
\* parent edge, every such member gets generation 0 as soon as it gets a
\* generation, and in the layout returned all of them stand in one and the
\* same row.
C13_RootsShareOneRow ==
    HasParentlessMember(input) =>
        /\ \A id \in Range(Parentless(input)) :
               GenHas(gen, id) => GenGet(gen, id) = 0
        /\ pc = "done" =>
               \A a, b \in Range(Parentless(input)) :
                   /\ RowIndexOf(result.levels, a) > 0
                   /\ RowIndexOf(result.levels, a) = RowIndexOf(result.levels, b)

\* C13 case: a layout of several rows has been returned for members of whom
\* two have no incoming parent edge, one of them the spouse of a member that
\* has a parent.
C13_SpouseOfChildIsRoot ==
    /\ pc = "done"
    /\ HasParentlessMember(input)
    /\ Cardinality(Range(Parentless(input))) >= 2
    /\ Len(result.levels) >= 2
    /\ \E k \in 1..Len(result.sEdges) :
           /\ Range(result.sEdges[k]) \subseteq MemberIds(input)
           /\ Range(result.sEdges[k]) \cap Range(Parentless(input)) # {}
           /\ Range(result.sEdges[k]) \ Range(Parentless(input)) # {}

-----------------------------------------------------------------------------
(* Properties of the family-tree routes *)

\* C14: GET /family-trees/:id answers 200 with the tree only to the owner or
\* for a public tree; a user who is not the owner gets 403 and no tree for a
\* private or restricted tree.
C14_OnlyOwnerOrPublicTreeIsReturned ==
    (response.route = "GET /:id" /\ tree.exists) =>
        /\ response.body # None =>
               \/ response.user = response.body[1].owner
               \/ response.body[1].privacy = "public"
        /\ (response.user # tree.owner /\ tree.privacy \in {"private", "restricted"}) =>
               response.status = 403 /\ response.body = None

\* C15: after any sequence of add-member and delete-member requests the
\* stored memberCount is the length of the members list, and the member the
\* latest add-member request added is the last entry of the list as long as
\* no delete-member request has removed it.
C15_CountAndLatestMemberLast ==
    tree.exists =>
        /\ tree.memberCount = Len(tree.members)
        /\ (added # None /\ HasId(tree.members, added[1])) =>
               tree.members[Len(tree.members)] = added[1]

\* C15 as stated: the stored memberCount is the length of the members list
\* and the member the latest add-member request added is the last entry of
\* the list.
C15_LatestMemberAlwaysLast ==
    tree.exists =>
        /\ tree.memberCount = Len(tree.members)
        /\ added # None =>
               /\ Len(tree.members) > 0
               /\ tree.members[Len(tree.members)] = added[1]

\* C15 case: two members were added and a delete-member request has removed
\* the first one.
C15_AddedTwiceDeletedOnce ==
    /\ tree.exists
    /\ issued = 2
    /\ response.route = "DELETE /:id/members/:memberId"
    /\ response.status = 200
    /\ added # None
    /\ tree.members = <<added[1]>>
    /\ tree.memberCount = 1

-----------------------------------------------------------------------------
(* Properties of buildTreeLayout: roots and generations *)

\* some emitted parent edge has the identifier as its child: a member of
\* this identifier names a father or a mother, or some member lists it among
\* its children
IsChildOfSomeone(ms, id) ==
    \/ \E k \in 1..Len(ms) :
          ms[k].id = id /\ (ms[k].fatherId # "" \/ ms[k].motherId # "")
    \/ \E k \in 1..Len(ms) : \E j \in 1..Len(ms[k].childrenIds) :
          ms[k].childrenIds[j] = id

\* member i is born before member j; a missing birth year counts as latest
BornBefore(ms, i, j) ==
    /\ ms[i].dateOfBirth # ""
    /\ ms[j].dateOfBirth = "" \/ year(ms[i].dateOfBirth)[1] < year(ms[j].dateOfBirth)[1]

\* the first member in input order before whom no member is born
EarliestBorn(ms) ==
    CHOOSE i \in 1..Len(ms) :
        /\ \A j \in 1..Len(ms) : ~BornBefore(ms, j, i)
        /\ \A j \in 1..(i - 1) : BornBefore(ms, j, i) \/ BornBefore(ms, i, j)

\* the seeds root selection should give
ExpectedSeeds(ms) ==
    LET free == SelectSeq([k \in 1..Len(ms) |-> ms[k].id],
                          LAMBDA id : ~IsChildOfSomeone(ms, id))
    IN  IF Len(free) > 0 THEN free ELSE <<ms[EarliestBorn(ms)].id>>

\* the roots have been selected and the BFS has not started
RootsSelected == pc = "bfs" /\ seen = {} /\ gen = << >>

\* C16: the BFS seeds are the members that are the child of no emitted
\* parent edge, in input order, when there are any; otherwise the one member
\* with the earliest birth year (a missing year counts as latest), the first
\* in input order among equals.  The seeds are never empty.
C16_SeedsAreParentlessOrOldest ==
    RootsSelected =>
        /\ Len(q) > 0
        /\ [k \in 1..Len(q) |-> q[k].id] = ExpectedSeeds(input)

\* C16 case: every member is somebody's child and the single seed is the
\* oldest member, who is not the first of the input.
C16_OldestIsNotFirst ==
    /\ RootsSelected
    /\ Len(input) >= 2
    /\ \A k \in 1..Len(input) : IsChildOfSomeone(input, input[k].id)
    /\ Len(q) = 1
    /\ q[1].id # input[1].id

\* gen holds every identifier once, and while the BFS runs it holds exactly
\* the identifiers seen
GenerationsWrittenOnce ==
    /\ \A j, k \in 1..Len(gen) : gen[j].id = gen[k].id => j = k
    /\ pc = "bfs" => {gen[k].id : k \in 1..Len(gen)} = seen

\* a step keeps every generation written before it
GenerationsKept ==
    \A k \in 1..Len(gen) :
        GenHas(gen', gen[k].id) /\ GenGet(gen', gen[k].id) = gen[k].g

\* a step of the BFS writes at most the generation of the entry it dequeues,
\* for an identifier not seen before
FirstDequeueWins ==
    (pc = "bfs" /\ pc' = "bfs" /\ gen' # gen) =>
        /\ Head(q).id \notin seen
        /\ gen' = Append(gen, Head(q))

\* a step of the BFS enqueues an identifier only as child of the node it
\* dequeued, one generation below it, as its parent, one generation above
\* it, or as its spouse, in the same generation
EnqueuedByEdge ==
    (pc = "bfs" /\ pc' = "bfs") =>
        \A k \in Len(q)..Len(q') :
            \/ <<Head(q).id, q'[k].id>> \in Range(pEdges) /\ q'[k].g = Head(q).g - 1
            \/ <<q'[k].id, Head(q).id>> \in Range(pEdges) /\ q'[k].g = Head(q).g + 1
            \/ /\ {<<Head(q).id, q'[k].id>>, <<q'[k].id, Head(q).id>>} \cap Range(sEdges) # {}
               /\ q'[k].g = Head(q).g

\* C17: the generation of an identifier is written once, by the first entry
\* dequeued for it, and no later queue entry and no fill changes it; a
\* queue entry created from an edge carries the generation of the dequeued
\* node minus one for a child, plus one for a parent, unchanged for a spouse.
C17_GenerationWrittenOnce ==
    /\ []GenerationsWrittenOnce
    /\ [][GenerationsKept /\ FirstDequeueWins /\ EnqueuedByEdge]_vars

\* C17 case: the BFS is about to discard a queue entry for an identifier
\* whose generation was written before, with another generation.
C17_LaterEntryDiscarded ==
    /\ pc = "bfs"
    /\ Len(q) > 0
    /\ Head(q).id \in seen
    /\ Head(q).g # GenGet(gen, Head(q).id)

\* C18: in the layout returned, the two ends of every spouse edge that are
\* both members stand in the same row.
C18_SpousesShareRow ==
    Returned =>
        \A k \in 1..Len(result.sEdges) :
            Range(result.sEdges[k]) \subseteq MemberIds(input) =>
                RowIndexOf(result.levels, result.sEdges[k][1])
                  = RowIndexOf(result.levels, result.sEdges[k][2])

\* C19: in the layout returned, for every explicit parent edge (p, c) between
\* two different members, the parent stands in the row directly below the
\* row of the child: rowIndex(p) = rowIndex(c) + 1.
C19_ChildRowAboveParentRow ==
    Returned =>
        \A e \in Range(ExplicitPEdges(input)) :
            (e[1] # e[2] /\ {e[1], e[2]} \subseteq MemberIds(input)) =>
                RowIndexOf(result.levels, e[1]) = RowIndexOf(result.levels, e[2]) + 1

\* no member has a fatherId, a motherId or an entry in childrenIds
NoParentLinks(ms) ==
    \A k \in 1..Len(ms) :
        ms[k].fatherId = "" /\ ms[k].motherId = "" /\ ms[k].childrenIds = << >>

RootGeneration ==
    LET written == {gen[j].g : j \in {j \in 1..Len(gen) : gen[j].id = fallbackRoot}}
    IN  IF written = {} THEN 0 ELSE CHOOSE g \in written : TRUE

\* the birth year of the fallback root
RootYear ==
    LET born == {year(members[j].dateOfBirth) :
                    j \in {j \in 1..Len(members) : members[j].id = fallbackRoot}}
    IN  IF born = {} THEN None ELSE CHOOSE y \in born : TRUE

\* the generation the fill is to give member k
ExpectedFill(k) ==
    LET d == relDeltaFromRoot(members[k].relationship)
        y == year(members[k].dateOfBirth)
    IN  CASE d # None -> RootGeneration + d[1]
          [] d = None /\ y # None /\ RootYear # None /\ y[1] <= RootYear[1] -> RootGeneration + 1
          [] d = None /\ y # None /\ RootYear # None /\ y[1] > RootYear[1] -> RootGeneration - 1
          [] OTHER -> RootGeneration

\* C21: the fill gives every member the BFS did not reach the generation
\* rootG + d when its label has the lexicon offset d; else rootG + 1 when its
\* birth year and that of the fallback root are known and it was born in the
\* same year or earlier, rootG - 1 when it was born later; else rootG; where
\* rootG is the BFS generation of the fallback root, 0 when it has none
\* (collections with pairwise distinct identifiers).
C21_FillByLabelThenBirthYear ==
    [][(pc = "bfs" /\ pc' = "normalize" /\ UniqueIds(members)) =>
          \A k \in 1..Len(members) :
              members[k].id \notin seen =>
                  /\ GenHas(gen', members[k].id)
                  /\ GenGet(gen', members[k].id) = ExpectedFill(k)]_vars

\* C21 case: the fill has placed, one generation above rootG, a member
\* without a known label who was born in the same year as the fallback root,
\* and another member by its label.
C21_FilledByYearAndByLabel ==
    /\ pc = "normalize"
    /\ UniqueIds(members)
    /\ fallbackRoot \in seen
    /\ \E k \in 1..Len(members) :
          /\ members[k].id \notin seen
          /\ relDeltaFromRoot(members[k].relationship) = None
          /\ year(members[k].dateOfBirth) # None
          /\ year(members[k].dateOfBirth) = RootYear
          /\ GenGet(gen, members[k].id) = RootGeneration + 1
    /\ \E k \in 1..Len(members) :
          /\ members[k].id \notin seen
          /\ relDeltaFromRoot(members[k].relationship) # None

\* a turn of the work loop that records an identifier records one that was
\* not recorded before, and only such a turn enqueues; what it enqueues are
\* identifiers not recorded so far
ExpandedOnce ==
    (pc = "bfs" /\ pc' = "bfs") =>
        /\ seen \subseteq seen'
        /\ seen' # seen => (Head(q).id \notin seen /\ seen' = seen \cup {Head(q).id})
        /\ seen' = seen => q' = Tail(q)
        /\ \A k \in Len(q)..Len(q') : q'[k].id \notin seen'

\* C22: the BFS work loop terminates, whatever the references (two members
\* each the parent of the other, a member its own parent, child or spouse,
\* mutual spouse links): every identifier is recorded and expanded at most
\* once, and the queue drains, after which the fill starts.
C22_WorkLoopTerminates ==
    /\ [][ExpandedOnce]_vars
    /\ (pc = "bfs") ~> (pc = "normalize" /\ Len(q) = 0)

\* C22 case: the work loop has ended on a collection in which two members are
\* each the parent of the other.
C22_DrainedOnParentCycle ==
    /\ pc = "normalize"
    /\ Len(q) = 0
    /\ \E a, b \in MemberIds(input) :
          /\ a # b
          /\ {<<a, b>>, <<b, a>>} \subseteq Range(pEdges)
          /\ {a, b} \subseteq seen

\* the least and the greatest generation written
LeastGeneration == CHOOSE g \in Generations(gen) : \A h \in Generations(gen) : g <= h
GreatestGeneration == CHOOSE g \in Generations(gen) : \A h \in Generations(gen) : h <= g

\* C23: once the rows are made, their number is the greatest generation
\* minus the least one plus 1, every identifier of generation g is in row
\* g minus the least generation (counted from 0) and in no other row, and
\* the first and the last row are not empty.
C23_RowsAreNormalizedGenerations ==
    (pc \in {"order", "provide", "done"} /\ Len(gen) > 0) =>
        /\ Len(levels) = GreatestGeneration - LeastGeneration + 1
        /\ \A k \in 1..Len(gen) : \A r \in 1..Len(levels) :
              gen[k].id \in Range(levels[r]) <=> r - 1 = gen[k].g - LeastGeneration
        /\ levels[1] # << >>
        /\ levels[Len(levels)] # << >>
        /\ pc = "done" => result.levels = levels

\* C23 case: a layout has been returned whose generations have a gap: three
\* rows, the one in the middle empty.
C23_ReturnedWithEmptyRowBetween ==
    /\ pc = "done"
    /\ Len(result.levels) = 3
    /\ result.levels[2] = << >>
    /\ GreatestGeneration - LeastGeneration = 2

\* the parents of a member among the members, in the order in which the
\* members declare them (references to nobody dropped)
ParentsAmongMembers(ms, id) ==
    LET declared == SelectSeq(ExplicitPEdges(ms),
                              LAMBDA e : e[2] = id /\ e[1] \in MemberIds(ms))
    IN  [k \in 1..Len(declared) |-> declared[k][1]]

\* the clustering token of a member: the last word, lower-cased, of the name
\* of its first parent, of its own name when it has no parent
FamilyToken(ms, id) ==
    IF ParentsAmongMembers(ms, id) # << >>
    THEN lastToken(NameOf(ms, ParentsAmongMembers(ms, id)[1]))
    ELSE lastToken(NameOf(ms, id))

\* the members a row holds, in the order of the row
MembersOfRow(ms, row) == SelectSeq(row, LAMBDA id : id \in MemberIds(ms))

\* the members whose generation is that of row r
AssignedToRow(r) ==
    {gen[k].id : k \in {k \in 1..Len(gen) : gen[k].g - LeastGeneration = r - 1}}
        \cap MemberIds(input)

\* C24: in every row returned, the members with the same clustering token
\* stand next to each other, the tokens ascend along the row, and the row
\* holds each member assigned to it once.
C24_RowsClusteredByToken ==
    Returned =>
        \A r \in 1..Len(result.levels) :
            LET row == MembersOfRow(input, result.levels[r])
                token == [k \in 1..Len(row) |-> FamilyToken(input, row[k])]
            IN  /\ \A i, j, k \in 1..Len(row) :
                      (i < j /\ j < k /\ token[i] = token[k]) => token[j] = token[i]
                /\ \A i, j \in 1..Len(row) :
                      i < j => ~StringLess(token[j], token[i])
                /\ Range(row) = AssignedToRow(r)
                /\ Len(row) = Cardinality(AssignedToRow(r))

\* the birth year of a member, 9999 when it has none
BirthYearOrLast(ms, id) ==
    LET y == year(ById(ms, id).dateOfBirth) IN IF y = None THEN 9999 ELSE y[1]

\* name a comes before name b, letter case apart
NameBefore(a, b) == StringLess(toLowerCase(a), toLowerCase(b))

\* C25: in every row returned, of two members of the same cluster the one
\* that stands first has the earlier birth year, a missing birth year counting
\* as 9999; when the years are equal, its name does not come after the
\* other's.
C25_ClusterByBirthYearThenName ==
    Returned =>
        \A r \in 1..Len(result.levels) :
            LET row == MembersOfRow(input, result.levels[r])
            IN  \A i, j \in 1..Len(row) :
                    (/\ i < j
                     /\ TokenOf(input, ExplicitPEdges(input), row[i])
                          = TokenOf(input, ExplicitPEdges(input), row[j])) =>
                        \/ BirthYearOrLast(input, row[i]) < BirthYearOrLast(input, row[j])
                        \/ /\ BirthYearOrLast(input, row[i]) = BirthYearOrLast(input, row[j])
                           /\ ~NameBefore(NameOf(input, row[j]), NameOf(input, row[i]))

\* C25 case: a row has been returned in which, within one cluster, two
\* members born in the same year stand in the order of their names, against
\* the order of the input, before a member without a birth date, who came
\* first in the input.
C25_SameYearByNameUndatedLast ==
    /\ Returned
    /\ Len(input) = 3
    /\ result.levels = << <<input[3].id, input[2].id, input[1].id>> >>
    /\ lastToken(input[1].name) = lastToken(input[2].name)
    /\ lastToken(input[2].name) = lastToken(input[3].name)
    /\ year(input[1].dateOfBirth) = None
    /\ year(input[2].dateOfBirth) # None
    /\ year(input[2].dateOfBirth) = year(input[3].dateOfBirth)
    /\ NameBefore(input[3].name, input[2].name)

\* C26: in the layout returned, for every member that lists another member
\* in spouseIds, the spouse edges hold exactly one edge between the two,
\* whether or not the other lists the first and whichever identifier is the
\* smaller.
C26_EverySpouseReferenceOneEdge ==
    Returned =>
        \A i, j \in 1..Len(input) :
            (i # j /\ input[j].id \in Range(input[i].spouseIds)) =>
                Cardinality({k \in 1..Len(result.sEdges) :
                                {result.sEdges[k][1], result.sEdges[k][2]}
                                    = {input[i].id, input[j].id}}) = 1

\* C27: the parent edges returned hold no (parent, child) pair twice, also
\* when the parent lists the child and the child names the parent.
C27_ParentEdgeAtMostOnce ==
    Returned =>
        \A k, l \in 1..Len(result.pEdges) :
            result.pEdges[k] = result.pEdges[l] => k = l

(***************************************************************************)
(* Properties of the tree-link routes                                      *)
(***************************************************************************)

\* The stored links, and the two trees a link joins.
StoredLinks == {k \in 1..Len(treeLinks) : ~treeLinks[k].deleted}
TreePair(link) == {link.sourceTree, link.targetTree}

Quiescent == \A u \in Users : calls[u] = None

\* The entries of linkedTrees of the stored tree t that refer to the link k.
EntriesFor(t, k) ==
    IF t \in DOMAIN linkTrees
    THEN {e \in 1..Len(linkTrees[t].linkedTrees) : linkTrees[t].linkedTrees[e].linkId = k}
    ELSE {}

=============================================================================
